---- MODULE Spec2Model ----
(***************************************************************************)
(* Model of src/DLEAMSE/search_vectors_against_index.py:                   *)
(*   - Faiss_write_index  (create_index, make_faiss_index,                 *)
(*                         write_faiss_index): builds and persists an index*)
(*   - Faiss_Index_Search (read_faiss_index, load_embedded_spectra_vector, *)
(*                         search_index, write_search_results,             *)
(*                         execute_faiss_index_search): the search run.    *)
(* The faiss / numpy / h5py calls are modelled at their call sites by what *)
(* the library does there (squared-L2 exhaustive or inverted-list search,  *)
(* -1 labels and FLT_MAX distances for unfilled slots, the shape           *)
(* assertion of Index.search and Index.add, the is_trained check of add).  *)
(* What the library leaves unspecified (the order of equidistant           *)
(* neighbours) is a nondeterministic choice.                               *)
(***************************************************************************)
EXTENDS Integers, Sequences, FiniteSets, TLC

VARIABLES
    gpus,               \* faiss.get_num_gpus() is non-zero
    index_type,         \* the index kind the caller of the builder wants
    spectra_vectors,    \* Faiss_write_index.spectra_vectors (the corpus)
    bindex,             \* local `index` of create_index
    bpc,                \* position inside Faiss_write_index.__init__/create_index
    index_file,         \* content of the index file on disk
    pc,                 \* position inside execute_faiss_index_search
    index,              \* local `index` of execute_faiss_index_search
    in_path,            \* args.input_embedded_spectra.name
    in_exists,          \* os.path.exists(in_path)
    in_content,         \* what the input file holds
    embedded_spectra,   \* local `embedded_spectra`
    k,                  \* args.k
    raw,                \* (D, I) as index.search returned them (line 143)
    D,                  \* D as search_index returned it
    I,                  \* I as search_index returned it
    out_file,           \* datasets of the output file
    err                 \* the exception that ended the run, "" when none

vars == <<gpus, index_type, spectra_vectors, bindex, bpc, index_file, pc, index,
          in_path, in_exists, in_content, embedded_spectra, k, raw, D, I,
          out_file, err>>

builder_vars == <<index_type, spectra_vectors, bindex, bpc>>

searcher_vars == <<pc, index, in_path, in_exists, in_content, embedded_spectra, k,
                   raw, D, I, out_file, err>>

----------------------------------------------------------------------------
(* Bounds of the model.                                                     *)

\* largest number of vectors in a corpus
MaxN == 2
\* largest number of rows in the query file
MaxQ == 1
\* largest k
MaxK == 2
\* number of inverted lists of a prebuilt partitioned index (nlist, scaled down)
Nlist == 2
\* longest path given to the loader on its own
MaxPathLen == 4

\* vector dimensions and coordinate values
Dims == {1, 2}
Coord == {0, 1}

\* DEFAULT_IVF_NLIST
DEFAULT_IVF_NLIST == 100
\* H5_MATRIX_NAME
H5_MATRIX_NAME == "MATRIX"

----------------------------------------------------------------------------
(* Sequences and vectors.                                                   *)

SeqsUpTo(S, n) == UNION {[1..m -> S] : m \in 0..n}

Vectors(d) == [1..d -> Coord]

RECURSIVE SumSeq(_)
SumSeq(s) == IF s = <<>> THEN 0 ELSE Head(s) + SumSeq(Tail(s))

RECURSIVE Flatten(_)
Flatten(rows) == IF rows = <<>> THEN <<>> ELSE Head(rows) \o Flatten(Tail(rows))

\* n rows of length d cut from a flat buffer
Chunk(buf, n, d) == [i \in 1..n |-> SubSeq(buf, (i - 1) * d + 1, i * d)]

\* fvec_L2sqr: the squared L2 distance faiss computes
L2sqr(x, y) == SumSeq([i \in DOMAIN x |-> (x[i] - y[i]) * (x[i] - y[i])])

----------------------------------------------------------------------------
(* Distances are reals of the form n^(1/2^r), kept in normal form so that   *)
(* equal reals are equal records.                                           *)

\* the float value faiss leaves in an unfilled result slot (3.4028235e38),
\* here any value above every squared distance of the bounded vectors
FLT_MAX == 127

RECURSIVE IsqrtFrom(_, _)
IsqrtFrom(n, m) == IF m * m >= n THEN m ELSE IsqrtFrom(n, m + 1)

IsSquare(n) == LET m == IsqrtFrom(n, 0) IN m * m = n

RECURSIVE Norm(_)
Norm(x) ==
    IF x.r > 0 /\ IsSquare(x.n)
    THEN Norm([n |-> IsqrtFrom(x.n, 0), r |-> x.r - 1])
    ELSE IF x.n \in {0, 1} THEN [n |-> x.n, r |-> 0] ELSE x

Num(n) == [n |-> n, r |-> 0]

\* x ** 0.5
Sqrt(x) == Norm([n |-> x.n, r |-> x.r + 1])

----------------------------------------------------------------------------
(* faiss indexes in memory.  A flat index keeps its vectors in xb, by id.   *)
(* A partitioned (IVF) index keeps the centroids of its quantizer and, per  *)
(* inverted list, the ids and the vectors assigned to that centroid.        *)

NoIndex == [kind |-> "none"]

Raised(e) == [kind |-> "error", err |-> e]

FlatIndex(device, d, xb) ==
    [kind |-> "flat", device |-> device, d |-> d, is_trained |-> TRUE, xb |-> xb,
     nlist |-> 0, nprobe |-> 0, centroids |-> <<>>, ids |-> <<>>, codes |-> <<>>]

IVFIndex(device, d, is_trained, nlist, nprobe, centroids, ids, codes) ==
    [kind |-> "ivfflat", device |-> device, d |-> d, is_trained |-> is_trained,
     xb |-> <<>>, nlist |-> nlist, nprobe |-> nprobe, centroids |-> centroids,
     ids |-> ids, codes |-> codes]

ntotal(ix) ==
    IF ix.kind = "flat" THEN Len(ix.xb)
    ELSE SumSeq([c \in DOMAIN ix.ids |-> Len(ix.ids[c])])

\* make_faiss_index(n_dimensions, index_type)
make_faiss_index(n_dimensions, itype) ==
    LET device == IF gpus THEN "gpu" ELSE "cpu" IN
    IF itype = "flat" THEN FlatIndex(device, n_dimensions, <<>>)
    ELSE IF itype = "ivfflat"
    THEN IVFIndex(device, n_dimensions, FALSE, DEFAULT_IVF_NLIST, 1, <<>>,
                  [c \in 1..DEFAULT_IVF_NLIST |-> <<>>],
                  [c \in 1..DEFAULT_IVF_NLIST |-> <<>>])
    ELSE Raised("ValueError")

\* the lists a vector may be assigned to: those of a nearest centroid
NearestLists(ix, x) ==
    {c \in DOMAIN ix.centroids :
        \A c2 \in DOMAIN ix.centroids :
            L2sqr(x, ix.centroids[c]) <= L2sqr(x, ix.centroids[c2])}

\* index.add of one vector with the next sequential id
AddOne(ix, x) ==
    IF ix.kind = "flat" THEN {[ix EXCEPT !.xb = Append(@, x)]}
    ELSE {[ix EXCEPT !.ids[c] = Append(@, ntotal(ix)), !.codes[c] = Append(@, x)] :
            c \in NearestLists(ix, x)}

RECURSIVE AddAll(_, _)
AddAll(ixs, rows) ==
    IF rows = <<>> THEN ixs
    ELSE AddAll(UNION {AddOne(ix, Head(rows)) : ix \in ixs}, Tail(rows))

\* index.add(x): the outcomes of faiss' add on an n-by-d array
index_add(ix, x) ==
    IF x.d # ix.d THEN {Raised("AssertionError")}
    ELSE IF ~ix.is_trained THEN {Raised("RuntimeError")}
    ELSE AddAll({ix}, x.rows)

\* faiss.index_gpu_to_cpu / faiss.index_cpu_to_gpu
index_gpu_to_cpu(ix) == [ix EXCEPT !.device = "cpu"]

index_cpu_to_gpu(ix) == [ix EXCEPT !.device = "gpu"]

----------------------------------------------------------------------------
(* The index file: faiss.write_index stores a kind tag, the header and the  *)
(* vectors as flat buffers; faiss.read_index rebuilds the index from them.  *)

NoFile == [fourcc |-> "none"]

\* faiss.write_index(index, path)
write_index(ix) ==
    [fourcc |-> IF ix.kind = "flat" THEN "IxF2" ELSE "IwFl",
     d |-> ix.d, ntotal |-> ntotal(ix), is_trained |-> ix.is_trained,
     xb |-> Flatten(ix.xb),
     nlist |-> ix.nlist, nprobe |-> ix.nprobe,
     quantizer |-> Flatten(ix.centroids),
     list_sizes |-> [c \in DOMAIN ix.ids |-> Len(ix.ids[c])],
     list_ids |-> Flatten(ix.ids),
     list_codes |-> Flatten([c \in DOMAIN ix.codes |-> Flatten(ix.codes[c])])]

\* offset of list c in the concatenated list buffers
ListOffset(f, c) == SumSeq([j \in 1..(c - 1) |-> f.list_sizes[j]])

\* faiss.read_index(path): a CPU index
read_index(f) ==
    IF f.fourcc = "none" THEN Raised("RuntimeError")
    ELSE IF f.fourcc = "IxF2" THEN FlatIndex("cpu", f.d, Chunk(f.xb, f.ntotal, f.d))
    ELSE IVFIndex("cpu", f.d, f.is_trained, f.nlist, f.nprobe,
                  Chunk(f.quantizer, Len(f.quantizer) \div f.d, f.d),
                  [c \in 1..f.nlist |->
                      SubSeq(f.list_ids, ListOffset(f, c) + 1,
                             ListOffset(f, c) + f.list_sizes[c])],
                  [c \in 1..f.nlist |->
                      Chunk(SubSeq(f.list_codes, ListOffset(f, c) * f.d + 1,
                                   (ListOffset(f, c) + f.list_sizes[c]) * f.d),
                            f.list_sizes[c], f.d)])

\* a write_faiss_index that persists the index as make_faiss_index left it
write_faiss_index_before_add(ix) ==
    write_index(FlatIndex("cpu", ix.d, <<>>))

\* Faiss_write_index.write_faiss_index(index, out_filepath): the file written
write_faiss_index(ix) ==
    write_index(IF gpus THEN index_gpu_to_cpu(ix) ELSE ix)

\* Faiss_Index_Search.read_faiss_index(index_filepath)
read_faiss_index(f) ==
    LET ix == read_index(f) IN
    IF ix.kind = "error" THEN ix
    ELSE IF gpus THEN index_cpu_to_gpu(ix) ELSE ix

----------------------------------------------------------------------------
(* index.search.  A result row has k slots of (squared distance, id); the    *)
(* slots no neighbour fills hold FLT_MAX and -1.  The k nearest candidates   *)
(* come in non-decreasing distance; which of several equidistant candidates *)
(* is kept, and in which order they come, is not fixed by the library.      *)

Slot(dis, id) == [dis |-> dis, id |-> id]

NoResult == Slot(FLT_MAX, -1)

Min(a, b) == IF a <= b THEN a ELSE b

\* a k-selection that leaves the unfilled slots zeroed: distance 0, id 0
TopK_zero_filled(cands, kk) ==
    LET m == Min(kk, Cardinality(cands)) IN
    {[j \in 1..kk |-> IF j <= m THEN sel[j] ELSE Slot(0, 0)] :
        sel \in {s \in [1..m -> cands] :
                    /\ \A i, j \in 1..m : i < j => s[i] # s[j] /\ s[i].dis <= s[j].dis
                    /\ \A c \in cands :
                          (\A i \in 1..m : s[i] # c) => \A i \in 1..m : s[i].dis <= c.dis}}

\* a k-selection that returns the k nearest in the order of their ids
TopK_by_id(cands, kk) ==
    LET m == Min(kk, Cardinality(cands)) IN
    {[j \in 1..kk |-> IF j <= m THEN sel[j] ELSE NoResult] :
        sel \in {s \in [1..m -> cands] :
                    /\ \A i, j \in 1..m : i < j => s[i].id < s[j].id
                    /\ \A c \in cands :
                          (\A i \in 1..m : s[i] # c) => \A i \in 1..m : s[i].dis <= c.dis}}

\* the rows a k-selection over the candidates may produce
TopK(cands, kk) ==
    LET m == Min(kk, Cardinality(cands)) IN
    {[j \in 1..kk |-> IF j <= m THEN sel[j] ELSE NoResult] :
        sel \in {s \in [1..m -> cands] :
                    /\ \A i, j \in 1..m : i < j => s[i] # s[j] /\ s[i].dis <= s[j].dis
                    /\ \A c \in cands :
                          (\A i \in 1..m : s[i] # c) => \A i \in 1..m : s[i].dis <= c.dis}}

\* the sets of inverted lists a query may probe: the nprobe nearest centroids
ProbeSets(ix, q) ==
    {S \in SUBSET (DOMAIN ix.centroids) :
        /\ Cardinality(S) = Min(ix.nprobe, Len(ix.centroids))
        /\ \A c \in S : \A c2 \in (DOMAIN ix.centroids) \ S :
              L2sqr(q, ix.centroids[c]) <= L2sqr(q, ix.centroids[c2])}

\* the candidates of one query, each with its squared distance
FlatCandidates(ix, q) == {Slot(L2sqr(q, ix.xb[i]), i - 1) : i \in DOMAIN ix.xb}

ListCandidates(ix, q, S) ==
    UNION {{Slot(L2sqr(q, ix.codes[c][i]), ix.ids[c][i]) : i \in DOMAIN ix.ids[c]} :
             c \in S}

\* the rows index.search may return for one query
SearchRows(ix, q, kk) ==
    IF ix.kind = "flat" THEN TopK(FlatCandidates(ix, q), kk)
    ELSE UNION {TopK(ListCandidates(ix, q, S), kk) : S \in ProbeSets(ix, q)}

\* the row sequences index.search may return for a batch of queries
RECURSIVE BatchRows(_, _, _)
BatchRows(ix, rows, kk) ==
    IF rows = <<>> THEN {<<>>}
    ELSE {<<r>> \o rest : r \in SearchRows(ix, Head(rows), kk),
                          rest \in BatchRows(ix, Tail(rows), kk)}

\* a query row cut or zero-padded to d coordinates
Resized(row, d) == [i \in 1..d |-> IF i <= Len(row) THEN row[i] ELSE 0]

\* an index.search that resizes the queries instead of asserting their shape
index_search_unchecked(ix, x, kk) ==
    {[kind |-> "ok",
      D |-> [q \in DOMAIN M |-> [j \in 1..kk |-> Num(M[q][j].dis)]],
      I |-> [q \in DOMAIN M |-> [j \in 1..kk |-> M[q][j].id]]] :
        M \in BatchRows(ix, [q \in DOMAIN x.rows |-> Resized(x.rows[q], ix.d)], kk)}

\* an index.search that refuses an index without vectors
index_search_empty_raises(ix, x, kk) ==
    IF x.d # ix.d THEN {Raised("AssertionError")}
    ELSE IF ntotal(ix) = 0 THEN {Raised("EmptyIndex")}
    ELSE {[kind |-> "ok",
           D |-> [q \in DOMAIN M |-> [j \in 1..kk |-> Num(M[q][j].dis)]],
           I |-> [q \in DOMAIN M |-> [j \in 1..kk |-> M[q][j].id]]] :
             M \in BatchRows(ix, x.rows, kk)}

\* index.search(x, k): the outcomes of faiss' search on an n-by-d array
index_search(ix, x, kk) ==
    IF x.d # ix.d THEN {Raised("AssertionError")}
    ELSE {[kind |-> "ok",
           D |-> [q \in DOMAIN M |-> [j \in 1..kk |-> Num(M[q][j].dis)]],
           I |-> [q \in DOMAIN M |-> [j \in 1..kk |-> M[q][j].id]]] :
             M \in BatchRows(ix, x.rows, kk)}

\* search_index without line 145: the squared distances go out as they came
SquareRootResults_skipped(Dm) == Dm

\* D = D ** 0.5 (line 145)
SquareRootResults(Dm) == [q \in DOMAIN Dm |-> [j \in DOMAIN Dm[q] |-> Sqrt(Dm[q][j])]]

\* Faiss_Index_Search.search_index(index, embedded, k); `raw` keeps the D of
\* line 143 beside the returned D and I
search_index(ix, embedded, kk) ==
    {IF r.kind = "error" THEN r
     ELSE [kind |-> "ok", raw |-> [D |-> r.D, I |-> r.I],
           D |-> SquareRootResults(r.D), I |-> r.I] :
        r \in index_search(ix, embedded, kk)}

----------------------------------------------------------------------------
(* Paths are sequences of characters.                                       *)

PathChars == {".", "h", "5", "n", "p", "y", "t", "x", "T"}

\* str.lower() of one character
LowerChar(c) == IF c = "T" THEN "t" ELSE c

Lower(s) == [i \in DOMAIN s |-> LowerChar(s[i])]

\* str.rfind("."): the 0-based position of the last ".", -1 when there is none
RFindDot(s) ==
    IF \E i \in DOMAIN s : s[i] = "."
    THEN (CHOOSE i \in DOMAIN s : s[i] = "." /\ \A j \in DOMAIN s : s[j] = "." => j <= i) - 1
    ELSE -1

\* s[i:] for i >= -1
SliceFrom(s, i) ==
    IF i >= 0 THEN SubSeq(s, i + 1, Len(s))
    ELSE IF Len(s) = 0 THEN <<>> ELSE SubSeq(s, Len(s), Len(s))

\* line 110 without .lower()
extension_lower_cased(filepath) == SliceFrom(filepath, RFindDot(filepath))

\* extension_lower (line 110)
extension_lower(filepath) == Lower(SliceFrom(filepath, RFindDot(filepath)))

EXT_H5 == <<".", "h", "5">>
EXT_NPY == <<".", "n", "p", "y">>
EXT_TXT == <<".", "t", "x", "t">>

----------------------------------------------------------------------------
(* Arrays.  A 2-D array is [d, rows]; what a file holds is a table of rows  *)
(* under a dataset name (the name matters to the .h5 container only).       *)

Array2D(d, rows) == [d |-> d, rows |-> rows]

Tables(maxrows) ==
    UNION {{Array2D(d, rows) : rows \in UNION {[1..n -> Vectors(d)] : n \in 1..maxrows}} :
             d \in Dims}

\* np.loadtxt(filepath): single-row and single-column tables come back 1-D
loadtxt(table) ==
    IF Len(table.rows) = 1 THEN [ndim |-> 1, vec |-> table.rows[1], rows |-> <<>>]
    ELSE IF table.d = 1
    THEN [ndim |-> 1, vec |-> [i \in DOMAIN table.rows |-> table.rows[i][1]], rows |-> <<>>]
    ELSE [ndim |-> 2, vec |-> <<>>, rows |-> table.rows]

\* np.load / h5f[H5_MATRIX_NAME][:]: the stored 2-D array
loadarray(table) == [ndim |-> 2, vec |-> <<>>, rows |-> table.rows]

\* Faiss_Index_Search.load_embedded_spectra_vector(filepath)
load_embedded_spectra_vector(filepath, exists, content) ==
    IF exists
    THEN LET ext == extension_lower(filepath) IN
         IF ext = EXT_H5
         THEN IF content.name = H5_MATRIX_NAME THEN [kind |-> "ok", a |-> loadarray(content.table)]
              ELSE Raised("KeyError")
         ELSE IF ext = EXT_NPY THEN [kind |-> "ok", a |-> loadarray(content.table)]
         ELSE IF ext = EXT_TXT THEN [kind |-> "ok", a |-> loadtxt(content.table)]
         ELSE Raised("ValueError: Unknown extension")
    ELSE Raised("Exception: File does not exists")

\* np.vstack([a]) (line 163): at least 2-D
vstack(a) ==
    IF a.ndim = 2 THEN Array2D(Len(a.rows[1]), a.rows)
    ELSE Array2D(Len(a.vec), <<a.vec>>)

\* write_search_results with range(D.shape[1]) for the query ids
write_search_results_k_ids(Dm, Im) ==
    [spectrum_ids |-> [i \in 1..Len(Dm[1]) |-> i - 1], D |-> Dm, I |-> Im]

\* Faiss_Index_Search.write_search_results(D, I, outpath): the datasets written
write_search_results(Dm, Im) ==
    [spectrum_ids |-> [i \in 1..Len(Dm) |-> i - 1], D |-> Dm, I |-> Im]

\* the output file as argparse.FileType('w') leaves it: no dataset
NoDatasets == [name \in {} |-> <<>>]

----------------------------------------------------------------------------
(* Inputs.                                                                  *)

Corpora == UNION {{Array2D(d, rows) : rows \in SeqsUpTo(Vectors(d), MaxN)} : d \in Dims}

NoArray == Array2D(0, <<>>)

NoResults == [D |-> <<>>, I |-> <<>>]

\* lexicographic order on vectors of one dimension
VecLess(a, b) ==
    \E i \in DOMAIN a : a[i] < b[i] /\ \A j \in 1..(i - 1) : a[j] = b[j]

\* the centroids of a trained quantizer: Nlist distinct vectors (listed in
\* increasing order: the numbering of the lists does not matter to a search)
Centroids(d) ==
    {c \in [1..Nlist -> Vectors(d)] : \A i, j \in 1..Nlist : i < j => VecLess(c[i], c[j])}

\* indexes somebody built: flat ones, and trained partitioned ones (nprobe 1)
FlatIndexes == {FlatIndex("cpu", c.d, c.rows) : c \in Corpora}

IVFIndexes ==
    UNION {UNION {AddAll({IVFIndex("cpu", c.d, TRUE, Len(cs), 1, cs,
                                   [i \in DOMAIN cs |-> <<>>], [i \in DOMAIN cs |-> <<>>])},
                         c.rows) : cs \in Centroids(c.d)} : c \in Corpora}

BuiltIndexes == FlatIndexes \cup IVFIndexes

IndexFiles == {NoFile} \cup {write_index(ix) : ix \in BuiltIndexes}

PATH_H5 == <<"x", ".", "h", "5">>
PATH_NPY == <<"x", ".", "n", "p", "y">>
PATH_TXT == <<"x", ".", "T", "x", "t">>
PATH_OTHER == <<"x", ".", "p", "y">>

NoContent == [name |-> "", table |-> NoArray]

\* a table of one all-zero row
ZeroTable(d) == Array2D(d, <<[i \in 1..d |-> 0]>>)

\* the input files of a run: path, whether it exists, what it holds.  Every table
\* comes as a .h5 and as a .txt file; the .npy files, read like the MATRIX of a
\* .h5 file, hold one row.
InputFiles ==
    {[path |-> PATH_NPY, exists |-> FALSE, content |-> NoContent]}
    \cup {[path |-> PATH_OTHER, exists |-> TRUE, content |-> NoContent]}
    \cup {[path |-> PATH_H5, exists |-> TRUE, content |-> [name |-> "other", table |-> NoArray]]}
    \cup {[path |-> PATH_NPY, exists |-> TRUE,
           content |-> [name |-> H5_MATRIX_NAME, table |-> ZeroTable(d)]] : d \in Dims}
    \cup {[path |-> p, exists |-> TRUE, content |-> [name |-> H5_MATRIX_NAME, table |-> t]] :
            p \in {PATH_H5, PATH_TXT}, t \in Tables(MaxQ)}

----------------------------------------------------------------------------
(* Faiss_write_index.__init__ -> create_index, step by step.                *)

BuilderIdle ==
    /\ index_type = "flat"
    /\ spectra_vectors = NoArray
    /\ bindex = NoIndex
    /\ bpc = "idle"

SearcherData ==
    /\ index = NoIndex
    /\ in_path = <<>>
    /\ in_exists = FALSE
    /\ in_content = NoContent
    /\ embedded_spectra = NoArray
    /\ k = 1
    /\ raw = NoResults
    /\ D = <<>>
    /\ I = <<>>
    /\ out_file = NoDatasets
    /\ err = ""

SearcherIdle == pc = "idle" /\ SearcherData

\* index = self.make_faiss_index(n_embedded_dim) (lines 38-39): index_type is
\* not passed on, so make_faiss_index runs with its default 'flat'
create_index_make ==
    /\ bpc = "start"
    /\ bindex' = make_faiss_index(spectra_vectors.d, "flat")
    /\ bpc' = "made"
    /\ UNCHANGED <<gpus, index_type, spectra_vectors, index_file, searcher_vars>>

\* index.add(self.spectra_vectors.astype('float32')) (line 40)
create_index_add ==
    /\ bpc = "made"
    /\ \E r \in index_add(bindex, spectra_vectors) :
          IF r.kind = "error"
          THEN bpc' = "error" /\ bindex' = bindex
          ELSE bpc' = "added" /\ bindex' = r
    /\ UNCHANGED <<gpus, index_type, spectra_vectors, index_file, searcher_vars>>

\* self.write_faiss_index(index, output_path) (line 41)
create_index_write ==
    /\ bpc = "added"
    /\ index_file' = write_faiss_index(bindex)
    /\ bpc' = "written"
    /\ UNCHANGED <<gpus, index_type, spectra_vectors, bindex, searcher_vars>>

----------------------------------------------------------------------------
(* Faiss_Index_Search.execute_faiss_index_search, step by step.             *)

\* index = self.read_faiss_index(args.index_file.name) (line 157)
exec_read_index ==
    /\ pc = "start"
    /\ LET r == read_faiss_index(index_file) IN
          IF r.kind = "error"
          THEN pc' = "error" /\ err' = r.err /\ index' = index
          ELSE pc' = "index_loaded" /\ err' = err /\ index' = r
    /\ UNCHANGED <<gpus, builder_vars, index_file, in_path, in_exists, in_content,
                   embedded_spectra, k, raw, D, I, out_file>>

\* run_spectra = self.load_embedded_spectra_vector(...); np.vstack (lines 160-163)
exec_load_vectors ==
    /\ pc = "index_loaded"
    /\ LET r == load_embedded_spectra_vector(in_path, in_exists, in_content) IN
          IF r.kind = "error"
          THEN pc' = "error" /\ err' = r.err /\ embedded_spectra' = embedded_spectra
          ELSE pc' = "vectors_loaded" /\ err' = err /\ embedded_spectra' = vstack(r.a)
    /\ UNCHANGED <<gpus, builder_vars, index_file, index, in_path, in_exists, in_content,
                   k, raw, D, I, out_file>>

\* D, I = self.search_index(index, embedded_spectra.astype('float32'), args.k)
\* (line 165)
exec_search ==
    /\ pc = "vectors_loaded"
    /\ \E r \in search_index(index, embedded_spectra, k) :
          IF r.kind = "error"
          THEN pc' = "error" /\ err' = r.err /\ UNCHANGED <<raw, D, I>>
          ELSE pc' = "searched" /\ err' = err /\ raw' = r.raw /\ D' = r.D /\ I' = r.I
    /\ UNCHANGED <<gpus, builder_vars, index_file, index, in_path, in_exists, in_content,
                   embedded_spectra, k, out_file>>

\* the write step in a finally clause: it runs after an error too
exec_write_results_finally ==
    /\ pc \in {"searched", "error"}
    /\ out_file' = write_search_results(D, I)
    /\ pc' = IF pc = "error" THEN "error" ELSE "written"
    /\ UNCHANGED <<gpus, builder_vars, index_file, index, in_path, in_exists, in_content,
                   embedded_spectra, k, raw, D, I, err>>

\* self.write_search_results(D, I, args.output.name) (line 167)
exec_write_results ==
    /\ pc = "searched"
    /\ out_file' = write_search_results(D, I)
    /\ pc' = "written"
    /\ UNCHANGED <<gpus, builder_vars, index_file, index, in_path, in_exists, in_content,
                   embedded_spectra, k, raw, D, I, err>>

\* args.output.close() (line 169)
exec_close ==
    /\ pc = "written"
    /\ pc' = "closed"
    /\ UNCHANGED <<gpus, builder_vars, index_file, index, in_path, in_exists, in_content,
                   embedded_spectra, k, raw, D, I, out_file, err>>

----------------------------------------------------------------------------
(* Spec: one run of execute_faiss_index_search (the __main__ of the file)   *)
(* over an index file somebody built, an input file and a k.                *)

Init ==
    /\ gpus \in BOOLEAN
    /\ BuilderIdle
    /\ index_file \in IndexFiles
    /\ pc = "start"
    /\ index = NoIndex
    /\ \E f \in InputFiles :
          in_path = f.path /\ in_exists = f.exists /\ in_content = f.content
    /\ embedded_spectra = NoArray
    /\ k \in 1..MaxK
    /\ raw = NoResults
    /\ D = <<>>
    /\ I = <<>>
    /\ out_file = NoDatasets
    /\ err = ""

Next ==
    \/ exec_read_index
    \/ exec_load_vectors
    \/ exec_search
    \/ exec_write_results
    \/ exec_close

Spec == Init /\ [][Next]_vars

----------------------------------------------------------------------------
(* SpecBuild: one construction Faiss_write_index(vectors_data, output_path) *)
(* by a caller who wants an index of kind index_type.                       *)

IndexTypes == {"flat", "ivfflat"}

InitBuild ==
    /\ gpus \in BOOLEAN
    /\ index_type \in IndexTypes
    /\ spectra_vectors \in Corpora
    /\ bindex = NoIndex
    /\ bpc = "start"
    /\ index_file = NoFile
    /\ SearcherIdle

NextBuild ==
    \/ create_index_make
    \/ create_index_add
    \/ create_index_write

SpecBuild == InitBuild /\ [][NextBuild]_vars

----------------------------------------------------------------------------
(* SpecRoundTrip: write_faiss_index of a built index held in memory, and    *)
(* read_faiss_index of the index file, in either order.                     *)

InMemory(ix) == IF gpus THEN index_cpu_to_gpu(ix) ELSE ix

InitRoundTrip ==
    /\ gpus \in BOOLEAN
    /\ index_type = "flat"
    /\ spectra_vectors = NoArray
    /\ \E ix \in BuiltIndexes : bindex = InMemory(ix)
    /\ bpc = "added"
    /\ index_file = NoFile
    /\ SearcherData
    /\ pc = "start"

NextRoundTrip ==
    \/ create_index_write
    \/ exec_read_index

SpecRoundTrip == InitRoundTrip /\ [][NextRoundTrip]_vars

----------------------------------------------------------------------------
(* SpecLoad: load_embedded_spectra_vector on any path, existing or not.     *)

Paths == SeqsUpTo(PathChars, MaxPathLen)

OneRow == Array2D(1, <<(<<0>>)>>)

InitLoad ==
    /\ gpus = FALSE
    /\ BuilderIdle
    /\ index_file = NoFile
    /\ pc = "index_loaded"
    /\ index = FlatIndex("cpu", 1, <<>>)
    /\ in_path \in Paths
    /\ in_exists \in BOOLEAN
    /\ in_content = IF in_exists THEN [name |-> H5_MATRIX_NAME, table |-> OneRow]
                    ELSE NoContent
    /\ embedded_spectra = NoArray
    /\ k = 1
    /\ raw = NoResults
    /\ D = <<>>
    /\ I = <<>>
    /\ out_file = NoDatasets
    /\ err = ""

NextLoad == exec_load_vectors

SpecLoad == InitLoad /\ [][NextLoad]_vars

----------------------------------------------------------------------------
(* Vocabulary of the claims.                                                *)

\* the run is past the search step without an error
Searched == pc \in {"searched", "written", "closed"}

\* the run is past the write step
Persisted == pc \in {"written", "closed"}

\* the queries were loaded and have the dimension of the loaded index
QueriesLoaded == embedded_spectra # NoArray

\* x * x for a distance x = n^(1/2^r)
Squared(x) == IF x.r > 0 THEN Norm([n |-> x.n, r |-> x.r - 1]) ELSE Num(x.n * x.n)

\* x is the non-negative square root of y
IsSqrtOf(x, y) == Squared(x) = y

RECURSIVE Pow2(_, _)
Pow2(n, e) == IF e = 0 THEN n ELSE Pow2(n * n, e - 1)

\* x <= y for distances
LeqDist(x, y) ==
    LET r == IF x.r >= y.r THEN x.r ELSE y.r
    IN Pow2(x.n, r - x.r) <= Pow2(y.n, r - y.r)

\* the stored vectors of an index, as the set of (id, vector) pairs
Stored(ix) ==
    IF ix.kind = "flat" THEN {<<i - 1, ix.xb[i]>> : i \in DOMAIN ix.xb}
    ELSE UNION {{<<ix.ids[c][i], ix.codes[c][i]>> : i \in DOMAIN ix.ids[c]} :
                  c \in DOMAIN ix.ids}

\* every slot of the matrices holds the squared L2 distance from its query to the
\* vector of its id, or the unfilled pair (FLT_MAX, -1)
SquaredL2Of(Dm, Im) ==
    \A q \in DOMAIN Dm : \A j \in DOMAIN Dm[q] :
        IF Im[q][j] = -1 THEN Dm[q][j] = Num(FLT_MAX)
        ELSE \E p \in Stored(index) :
                /\ p[1] = Im[q][j]
                /\ Dm[q][j] = Num(L2sqr(embedded_spectra.rows[q], p[2]))

DatasetNames == {"spectrum_ids", "D", "I"}

----------------------------------------------------------------------------
(* C1.                                                                      *)

\* C1: for either index kind, every distance search_index returns, and every
\* distance persisted, is the square root of the squared L2 distance index.search
\* returned in that slot (the root taken once: its square is that squared
\* distance), and the id matrix returned and persisted is index.search's.
C1_SquareRootOnce ==
    Searched =>
        /\ SquaredL2Of(raw.D, raw.I)
        /\ DOMAIN D = DOMAIN raw.D
        /\ \A q \in DOMAIN D :
              /\ DOMAIN D[q] = DOMAIN raw.D[q]
              /\ \A j \in DOMAIN D[q] : IsSqrtOf(D[q][j], raw.D[q][j])
        /\ I = raw.I
        /\ Persisted =>
              /\ \A q \in DOMAIN out_file["D"] : \A j \in DOMAIN out_file["D"][q] :
                    IsSqrtOf(out_file["D"][q][j], raw.D[q][j])
              /\ DOMAIN out_file["D"] = DOMAIN raw.D
              /\ out_file["I"] = raw.I

\* a partitioned index returned a distance that is no perfect square, and it was
\* persisted
C1_Witness ==
    /\ pc = "closed"
    /\ index.kind = "ivfflat"
    /\ \E q \in DOMAIN D : \E j \in DOMAIN D[q] : raw.D[q][j] = Num(2) /\ D[q][j] # Num(2)

----------------------------------------------------------------------------
(* C2.                                                                      *)

SameLetter(a, b) == a = b \/ {a, b} = {"t", "T"}

\* the path ends with the extension e, letter case aside
EndsWith(path, e) ==
    /\ Len(path) >= Len(e)
    /\ \A i \in 1..Len(e) : SameLetter(path[Len(path) - Len(e) + i], e[i])

SupportedExtension(path) ==
    \E e \in {<<".", "h", "5">>, <<".", "n", "p", "y">>, <<".", "t", "x", "t">>} :
        EndsWith(path, e)

FileNotFound == "Exception: File does not exists"

UnsupportedFormat == "ValueError: Unknown extension"

\* C2: once the loader has run, a path that does not exist has raised
\* FileNotFound, an existing path whose extension (letter case aside) is none of
\* .h5, .npy, .txt has raised UnsupportedFormat, in both cases no array was
\* returned, and an existing path with a supported extension raised neither.
C2_LoaderErrors ==
    pc # "index_loaded" =>
        /\ ~in_exists =>
              pc = "error" /\ err = FileNotFound /\ embedded_spectra = NoArray
        /\ (in_exists /\ ~SupportedExtension(in_path)) =>
              pc = "error" /\ err = UnsupportedFormat /\ embedded_spectra = NoArray
        /\ (in_exists /\ SupportedExtension(in_path)) =>
              err \notin {FileNotFound, UnsupportedFormat}

\* an existing path with an upper-case supported extension was loaded
C2_Witness ==
    /\ pc = "vectors_loaded"
    /\ in_path = <<".", "T", "x", "T">>
    /\ embedded_spectra # NoArray

----------------------------------------------------------------------------
(* C3.                                                                      *)

\* C3: the index the builder persisted is of the requested kind, was trained
\* before insertion when that kind is partitioned, and holds the N corpus
\* vectors under the ids 0..N-1 in insertion order.
C3_BuilderHonoursKind ==
    bpc = "written" =>
        /\ bindex.kind = index_type
        /\ index_type = "ivfflat" => bindex.is_trained
        /\ Stored(bindex) =
              {<<i - 1, spectra_vectors.rows[i]>> : i \in DOMAIN spectra_vectors.rows}
        /\ index_file = write_index(index_gpu_to_cpu(bindex))

----------------------------------------------------------------------------
(* C4.                                                                      *)

\* C4: once the search step has run on queries of dimension D+1 against an index
\* of dimension D, the run has ended with the DimensionMismatch error
\* (faiss' shape assertion), no distance or id matrix was returned, nothing was
\* persisted, and the index in memory is still the one the index file holds.
C4_DimensionMismatch ==
    (QueriesLoaded /\ pc # "vectors_loaded" /\ embedded_spectra.d = index.d + 1) =>
        /\ pc = "error"
        /\ err = "AssertionError"
        /\ D = <<>> /\ I = <<>> /\ raw = NoResults
        /\ out_file = NoDatasets
        /\ index.d = index_file.d
        /\ ntotal(index) = index_file.ntotal
        /\ write_index(index_gpu_to_cpu(index)) = index_file

\* a query of dimension 2 was searched against a non-empty index of dimension 1
C4_Witness ==
    /\ pc = "error"
    /\ QueriesLoaded
    /\ index.d = 1
    /\ embedded_spectra.d = 2
    /\ ntotal(index) > 0

----------------------------------------------------------------------------
(* C5.                                                                      *)

\* a row of ids holds n distinct ids of 0..N-1 in its first n slots and -1 in
\* the others
ValidThenNoResult(row, n, N) ==
    /\ \A j \in DOMAIN row : IF j <= n THEN row[j] \in 0..(N - 1) ELSE row[j] = -1
    /\ \A i, j \in DOMAIN row : (i < j /\ j <= n) => row[i] # row[j]

\* C5 as stated: whatever the index kind, with 0 < N < k the search does not
\* raise and every row holds N valid distinct ids and then k-N "no result" ids.
C5_Original ==
    (QueriesLoaded /\ embedded_spectra.d = index.d
        /\ 0 < ntotal(index) /\ ntotal(index) < k) =>
        /\ pc # "error"
        /\ Searched =>
              \A q \in DOMAIN I :
                  Len(I[q]) = k /\ ValidThenNoResult(I[q], ntotal(index), ntotal(index))

\* C5 amended: that holds of a flat index; a partitioned index does not raise
\* either, and its rows hold some n <= N valid distinct ids and then "no result".
C5_FewerThanK ==
    (QueriesLoaded /\ embedded_spectra.d = index.d
        /\ 0 < ntotal(index) /\ ntotal(index) < k) =>
        /\ pc # "error"
        /\ Searched =>
              \A q \in DOMAIN I :
                  /\ Len(I[q]) = k
                  /\ \E n \in 0..ntotal(index) :
                        /\ index.kind = "flat" => n = ntotal(index)
                        /\ ValidThenNoResult(I[q], n, ntotal(index))

\* a flat index of one vector was searched with k = 2
C5_Witness ==
    /\ Searched
    /\ index.kind = "flat"
    /\ ntotal(index) = 1
    /\ k = 2
    /\ \E q \in DOMAIN I : I[q] = <<0, -1>>

----------------------------------------------------------------------------
(* C6.                                                                      *)

----------------------------------------------------------------------------
(* C7.                                                                      *)

----------------------------------------------------------------------------
(* C8.                                                                      *)

\* C8: a search with k > 0 of an index that holds no vector, with queries of
\* the index's dimension, does not raise; every slot of every row is "no
\* result"; the write step then runs, and the persisted ids are those.
C8_EmptyIndex ==
    (QueriesLoaded /\ embedded_spectra.d = index.d /\ ntotal(index) = 0 /\ k > 0) =>
        /\ pc # "error"
        /\ Searched =>
              /\ Len(I) = Len(embedded_spectra.rows)
              /\ \A q \in DOMAIN I : I[q] = [j \in 1..k |-> -1]
        /\ pc = "searched" => ENABLED exec_write_results
        /\ Persisted =>
              /\ DOMAIN out_file = DatasetNames
              /\ \A q \in DOMAIN out_file["I"] : out_file["I"][q] = [j \in 1..k |-> -1]

\* the result of searching an empty index was persisted
C8_Witness ==
    /\ pc = "written"
    /\ ntotal(index) = 0
    /\ Len(out_file["I"]) > 0

----------------------------------------------------------------------------
(* C9.                                                                      *)

----------------------------------------------------------------------------
(* C10.                                                                     *)

RunOrder ==
    {<<"start", "index_loaded">>, <<"index_loaded", "vectors_loaded">>,
     <<"vectors_loaded", "searched">>, <<"searched", "written">>,
     <<"written", "closed">>,
     <<"start", "error">>, <<"index_loaded", "error">>, <<"vectors_loaded", "error">>}

\* C10: every step of a run moves it along load index, load vectors, search,
\* write, close, or from one of the first three to the error that ends it; an
\* ended run stays ended with its error; the output file changes in the step
\* from searched to written only, so a run that ends in an error has written no
\* dataset.
C10_RunOrder ==
    [][/\ pc' # pc => <<pc, pc'>> \in RunOrder
       /\ pc = "error" => (pc' = "error" /\ err' = err)
       /\ pc' = "error" => (err' # "" /\ out_file' = NoDatasets)
       /\ out_file' # out_file => (pc = "searched" /\ pc' = "written")]_vars

\* the search step raised, after both loads went through
C10_Witness ==
    /\ pc = "error"
    /\ err = "AssertionError"
    /\ index # NoIndex
    /\ QueriesLoaded
    /\ out_file = NoDatasets

====
